---------------------------- MODULE Spec2Model ----------------------------
(***************************************************************************)
(* Layered CRUD example for the User entity: repository -> service ->      *)
(* endpoint.  The backing table is a sequence of rows in storage order.    *)
(* A Python "User | None" is a sequence of at most one row (<< >> = None). *)
(* Emails and names are abstract values 1..NumEmails and 1..NumNames.      *)
(***************************************************************************)
EXTENDS Integers, Sequences, FiniteSets

VARIABLES store,    \* rows of the users table, in storage order
          last,     \* the most recent completed UserService call and its outcome
          pc,       \* per concurrent caller: position inside create_user
          pending,  \* per concurrent caller: the arguments of its create_user
          resp      \* the most recent endpoint response

vars == <<store, last, pc, pending, resp>>

-----------------------------------------------------------------------------
(* Bounds of the model *)
MaxId == 3
NumEmails == 2
NumNames == 2
MaxPage == 3
MaxPageSize == 2
NumCallers == 2

Ids == 1..MaxId
Emails == 1..NumEmails
Names == 1..NumNames
Pages == 1..MaxPage
PageSizes == 1..MaxPageSize
Callers == 1..NumCallers

-----------------------------------------------------------------------------
(* User model and values *)
User(id, email, name) == [id |-> id, email |-> email, name |-> name]

None == << >>

IdsOf(s) == {s[i].id : i \in DOMAIN s}
EmailsOf(s) == {s[i].email : i \in DOMAIN s}

\* One recorded call on the repository; 0 marks an argument the call does not take.
Call(fn, user_id, email, name, limit, offset) ==
    [fn |-> fn, user_id |-> user_id, email |-> email, name |-> name,
     limit |-> limit, offset |-> offset]

-----------------------------------------------------------------------------
(* Repository *)

\* session.scalar(stmt): the first row of the result, or None
scalar(rows) == IF rows = << >> THEN None ELSE <<Head(rows)>>

get_by_id(s, user_id) == scalar(SelectSeq(s, LAMBDA u : u.id = user_id))

get_by_email(s, email) == scalar(SelectSeq(s, LAMBDA u : u.email = email))

\* select(User).limit(limit).offset(offset) over the table's storage order
list_all(s, limit, offset) ==
    LET lo == offset + 1
        hi == IF offset + limit < Len(s) THEN offset + limit ELSE Len(s)
    IN  IF lo > hi THEN << >> ELSE SubSeq(s, lo, hi)

\* the primary keys the storage may assign to a new row on flush
FreshIds(s) == Ids \ IdsOf(s)

\* Mutation: the new object is never added to the session.
create_not_added(s, email, name, new_id) == s

\* session.add(User(email, name)); session.flush(): no uniqueness check on email
create(s, email, name, new_id) == Append(s, User(new_id, email, name))

\* Mutation: the changed object is never flushed.
update_not_flushed(s, user) == s

\* session.add(user); session.flush(): writes the object's fields to its row
update(s, user) == [i \in DOMAIN s |-> IF s[i].id = user.id THEN user ELSE s[i]]

\* Mutation: the delete is never flushed.
delete_not_flushed(s, user) == s

\* session.delete(user); session.flush()
delete(s, user) == SelectSeq(s, LAMBDA u : u.id # user.id)

-----------------------------------------------------------------------------
(* Service: each operator yields the outcome of the call, the repository   *)
(* calls it made and the table afterwards.                                 *)

Return(value, calls, s) == [kind |-> "ok", value |-> value, calls |-> calls, store |-> s]

Raise(exc, calls, s) == [kind |-> exc, value |-> None, calls |-> calls, store |-> s]

\* Mutation: a missing user raises the other service error.
get_user_wrong_error(s, user_id) ==
    LET user == get_by_id(s, user_id)
        calls == <<Call("get_by_id", user_id, 0, 0, 0, 0)>>
    IN  IF user = None
        THEN Raise("UserAlreadyExistsError", calls, s)
        ELSE Return(user, calls, s)

get_user(s, user_id) ==
    LET user == get_by_id(s, user_id)
        calls == <<Call("get_by_id", user_id, 0, 0, 0, 0)>>
    IN  IF user = None
        THEN Raise("UserNotFoundError", calls, s)
        ELSE Return(user, calls, s)

\* Mutation: the page is taken as 0-indexed.
list_users_zero_indexed(s, page, page_size) ==
    LET offset == page * page_size
    IN  Return(list_all(s, page_size, offset),
               <<Call("list_all", 0, 0, 0, page_size, offset)>>, s)

list_users(s, page, page_size) ==
    LET offset == (page - 1) * page_size
    IN  Return(list_all(s, page_size, offset),
               <<Call("list_all", 0, 0, 0, page_size, offset)>>, s)

\* Mutation: the existence check is skipped.
create_user_check_skipped(s, email) ==
    Return(None, <<Call("get_by_email", 0, email, 0, 0, 0)>>, s)

\* the existence check of create_user: get_by_email, then raise if found
create_user_check(s, email) ==
    LET existing_user == get_by_email(s, email)
        calls == <<Call("get_by_email", 0, email, 0, 0, 0)>>
    IN  IF existing_user # None
        THEN Raise("UserAlreadyExistsError", calls, s)
        ELSE Return(None, calls, s)

\* Mutation: the create looks the email up again and refuses a taken one.
create_user_write_rechecked(s, email, name, new_id) ==
    IF get_by_email(s, email) # None
    THEN Raise("UserAlreadyExistsError", << >>, s)
    ELSE Return(<<User(new_id, email, name)>>,
                <<Call("create", 0, email, name, 0, 0)>>,
                create(s, email, name, new_id))

\* the create that follows a passed check, on the table as it is then
create_user_write(s, email, name, new_id) ==
    Return(<<User(new_id, email, name)>>,
           <<Call("create", 0, email, name, 0, 0)>>,
           create(s, email, name, new_id))

\* Mutation: the record is created before the existence check raises.
create_user_write_first(s, email, name, new_id) ==
    LET chk == create_user_check(s, email)
        wr == create_user_write(s, email, name, new_id)
    IN  IF chk.kind # "ok"
        THEN Raise(chk.kind, wr.calls \o chk.calls, wr.store)
        ELSE [wr EXCEPT !.calls = chk.calls \o wr.calls]

create_user(s, email, name, new_id) ==
    LET chk == create_user_check(s, email)
        wr == create_user_write(chk.store, email, name, new_id)
    IN  IF chk.kind # "ok"
        THEN chk
        ELSE [wr EXCEPT !.calls = chk.calls \o wr.calls]

\* Mutation: the user is not looked up first, the update is issued regardless.
update_user_name_unchecked(s, user_id, new_name) ==
    LET got == get_by_id(s, user_id)
        user == User(user_id, IF got = None THEN 0 ELSE got[1].email, new_name)
    IN  Return(<<user>>,
               <<Call("update", user.id, user.email, user.name, 0, 0)>>,
               update(s, user))

update_user_name(s, user_id, new_name) ==
    LET got == get_user(s, user_id)
    IN  IF got.kind # "ok"
        THEN got
        ELSE LET user == [got.value[1] EXCEPT !.name = new_name]
             IN  Return(<<user>>,
                        got.calls \o <<Call("update", user.id, user.email, user.name, 0, 0)>>,
                        update(s, user))

delete_user(s, user_id) ==
    LET got == get_user(s, user_id)
    IN  IF got.kind # "ok"
        THEN got
        ELSE LET user == got.value[1]
             IN  Return(None,
                        got.calls \o <<Call("delete", user.id, user.email, user.name, 0, 0)>>,
                        delete(s, user))

-----------------------------------------------------------------------------
(* State *)

\* The record kept of a service call: its name, its arguments (0 = not taken)
\* and its outcome.
Record(op, user_id, email, name, page, page_size, r) ==
    [op |-> op, user_id |-> user_id, email |-> email, name |-> name,
     page |-> page, page_size |-> page_size,
     kind |-> r.kind, value |-> r.value, calls |-> r.calls]

NoCall == Record("none", 0, 0, 0, 0, 0, Return(None, << >>, << >>))

NoResponse == [endpoint |-> "none", status |-> 0, cause |-> "none", raised |-> "none"]

NoPending == [email |-> 0, name |-> 0, kind |-> "none"]

Init ==
    /\ store = << >>
    /\ last = NoCall
    /\ pc = [c \in Callers |-> "idle"]
    /\ pending = [c \in Callers |-> NoPending]
    /\ resp = NoResponse

-----------------------------------------------------------------------------
(* Service calls, each run to completion *)

GetUser(user_id) ==
    LET r == get_user(store, user_id)
    IN  /\ last' = Record("get_user", user_id, 0, 0, 0, 0, r)
        /\ store' = r.store
        /\ UNCHANGED <<pc, pending, resp>>

ListUsers(page, page_size) ==
    LET r == list_users(store, page, page_size)
    IN  /\ last' = Record("list_users", 0, 0, 0, page, page_size, r)
        /\ store' = r.store
        /\ UNCHANGED <<pc, pending, resp>>

CreateUser(email, name, new_id) ==
    LET r == create_user(store, email, name, new_id)
    IN  /\ last' = Record("create_user", 0, email, name, 0, 0, r)
        /\ store' = r.store
        /\ UNCHANGED <<pc, pending, resp>>

UpdateUserName(user_id, new_name) ==
    LET r == update_user_name(store, user_id, new_name)
    IN  /\ last' = Record("update_user_name", user_id, 0, new_name, 0, 0, r)
        /\ store' = r.store
        /\ UNCHANGED <<pc, pending, resp>>

DeleteUser(user_id) ==
    LET r == delete_user(store, user_id)
    IN  /\ last' = Record("delete_user", user_id, 0, 0, 0, 0, r)
        /\ store' = r.store
        /\ UNCHANGED <<pc, pending, resp>>

Next ==
    \/ \E user_id \in Ids : GetUser(user_id)
    \/ \E page \in Pages, page_size \in PageSizes : ListUsers(page, page_size)
    \/ \E email \in Emails, name \in Names, new_id \in FreshIds(store) :
          CreateUser(email, name, new_id)
    \/ \E user_id \in Ids, new_name \in Names : UpdateUserName(user_id, new_name)
    \/ \E user_id \in Ids : DeleteUser(user_id)

Spec == Init /\ [][Next]_vars

-----------------------------------------------------------------------------
(* Concurrent callers of create_user, one call each: the service takes no  *)
(* lock, so another caller may run between a caller's get_by_email and its *)
(* create.  pc[c] = "checked" is caller c between the two, "returned" is   *)
(* caller c after its call, with the outcome in pending[c].kind.           *)

CreateBegin(c, email, name) ==
    LET r == create_user_check(store, email)
    IN  /\ pc[c] = "idle"
        /\ IF r.kind = "ok"
           THEN /\ pc' = [pc EXCEPT ![c] = "checked"]
                /\ pending' = [pending EXCEPT ![c] =
                                  [email |-> email, name |-> name, kind |-> "running"]]
                /\ UNCHANGED last
           ELSE /\ pc' = [pc EXCEPT ![c] = "returned"]
                /\ pending' = [pending EXCEPT ![c] =
                                  [email |-> email, name |-> name, kind |-> r.kind]]
                /\ last' = Record("create_user", 0, email, name, 0, 0, r)
        /\ store' = r.store
        /\ UNCHANGED resp

CreateFinish(c, new_id) ==
    LET email == pending[c].email
        name == pending[c].name
        r == create_user_write(store, email, name, new_id)
    IN  /\ pc[c] = "checked"
        /\ pc' = [pc EXCEPT ![c] = "returned"]
        /\ pending' = [pending EXCEPT ![c].kind = r.kind]
        /\ last' = Record("create_user", 0, email, name, 0, 0,
                          [r EXCEPT !.calls = <<Call("get_by_email", 0, email, 0, 0, 0)>> \o @])
        /\ store' = r.store
        /\ UNCHANGED resp

NextConc ==
    \/ \E c \in Callers, email \in Emails, name \in Names : CreateBegin(c, email, name)
    \/ \E c \in Callers, new_id \in FreshIds(store) : CreateFinish(c, new_id)

SpecConc == Init /\ [][NextConc]_vars

-----------------------------------------------------------------------------
(* Endpoints *)

\* A repository call on a storage that is down raises out of the service; the
\* request's session is rolled back, so the table is as before.
with_storage(up, r, s) == IF up THEN r ELSE Raise("OperationalError", << >>, s)

Response(endpoint, status, cause, raised) ==
    [endpoint |-> endpoint, status |-> status, cause |-> cause, raised |-> raised]

\* try: ... except Exception: raise HTTPException(404)
api_get_user(r) ==
    IF r.kind = "ok"
    THEN Response("get_user", 200, "none", "none")
    ELSE Response("get_user", 404, r.kind, "HTTPException")

\* no try block: whatever the service raises leaves the endpoint
api_list_users(r) ==
    IF r.kind = "ok"
    THEN Response("list_users", 200, "none", "none")
    ELSE Response("list_users", 500, r.kind, r.kind)

\* try: ... except Exception: raise HTTPException(409)
api_create_user(r) ==
    IF r.kind = "ok"
    THEN Response("create_user", 201, "none", "none")
    ELSE Response("create_user", 409, r.kind, "HTTPException")

\* try: ... except Exception: raise HTTPException(404)
api_update_user(r) ==
    IF r.kind = "ok"
    THEN Response("update_user", 200, "none", "none")
    ELSE Response("update_user", 404, r.kind, "HTTPException")

\* try: ... except Exception: raise HTTPException(404)
api_delete_user(r) ==
    IF r.kind = "ok"
    THEN Response("delete_user", 204, "none", "none")
    ELSE Response("delete_user", 404, r.kind, "HTTPException")

ApiGetUser(user_id, up) ==
    LET r == with_storage(up, get_user(store, user_id), store)
    IN  /\ resp' = api_get_user(r)
        /\ last' = Record("get_user", user_id, 0, 0, 0, 0, r)
        /\ store' = r.store
        /\ UNCHANGED <<pc, pending>>

ApiListUsers(page, page_size, up) ==
    LET r == with_storage(up, list_users(store, page, page_size), store)
    IN  /\ resp' = api_list_users(r)
        /\ last' = Record("list_users", 0, 0, 0, page, page_size, r)
        /\ store' = r.store
        /\ UNCHANGED <<pc, pending>>

ApiCreateUser(email, name, new_id, up) ==
    LET r == with_storage(up, create_user(store, email, name, new_id), store)
    IN  /\ resp' = api_create_user(r)
        /\ last' = Record("create_user", 0, email, name, 0, 0, r)
        /\ store' = r.store
        /\ UNCHANGED <<pc, pending>>

ApiUpdateUser(user_id, name, up) ==
    LET r == with_storage(up, update_user_name(store, user_id, name), store)
    IN  /\ resp' = api_update_user(r)
        /\ last' = Record("update_user_name", user_id, 0, name, 0, 0, r)
        /\ store' = r.store
        /\ UNCHANGED <<pc, pending>>

ApiDeleteUser(user_id, up) ==
    LET r == with_storage(up, delete_user(store, user_id), store)
    IN  /\ resp' = api_delete_user(r)
        /\ last' = Record("delete_user", user_id, 0, 0, 0, 0, r)
        /\ store' = r.store
        /\ UNCHANGED <<pc, pending>>

NextApi ==
    \/ \E user_id \in Ids, up \in BOOLEAN : ApiGetUser(user_id, up)
    \/ \E page \in Pages, page_size \in PageSizes, up \in BOOLEAN :
          ApiListUsers(page, page_size, up)
    \/ \E email \in Emails, name \in Names, new_id \in FreshIds(store), up \in BOOLEAN :
          ApiCreateUser(email, name, new_id, up)
    \/ \E user_id \in Ids, name \in Names, up \in BOOLEAN : ApiUpdateUser(user_id, name, up)
    \/ \E user_id \in Ids, up \in BOOLEAN : ApiDeleteUser(user_id, up)

SpecApi == Init /\ [][NextApi]_vars

-----------------------------------------------------------------------------
(* Properties *)

NotFound(s, user_id) == get_user(s, user_id).kind = "UserNotFoundError"

RowsWithEmail(s, email) == {i \in DOMAIN s : s[i].email = email}

RowsWithId(s, user_id) == {i \in DOMAIN s : s[i].id = user_id}

CallsTo(calls, fn) == {k \in DOMAIN calls : calls[k].fn = fn}

\* C1: after any sequence of service calls, each run to completion, no two
\* stored User records have the same email.
C1_UniqueEmail ==
    \A i, j \in DOMAIN store : store[i].email = store[j].email => i = j

\* Two records are stored, after a create that was refused and others that were not.
C1_Witness ==
    /\ Len(store) >= 2
    /\ last.op = "create_user"
    /\ last.kind = "UserAlreadyExistsError"

\* C2: create_user with an email some stored User has fails with
\* UserAlreadyExistsError whatever the name, makes no call to
\* Repository.create, and leaves the stored records as they were.
C2_ExistingEmailRejected ==
    [][(last'.op = "create_user" /\ last'.email \in EmailsOf(store)) =>
          /\ last'.kind = "UserAlreadyExistsError"
          /\ CallsTo(last'.calls, "create") = {}
          /\ store' = store]_vars

\* A create was refused for an email whose record carries another name.
C2_Witness ==
    /\ last.op = "create_user"
    /\ last.kind = "UserAlreadyExistsError"
    /\ \E i \in DOMAIN store :
          store[i].email = last.email /\ store[i].name # last.name

\* C3: a caller that has passed the check of create_user creates its record
\* whatever other callers have stored since: its call succeeds and the table
\* gains one more row with its email, so two callers that both passed the
\* check for one unused email leave two records with that email.
C3_CheckThenCreateRace ==
    [][\A c \in Callers :
          (pc[c] = "checked" /\ pc'[c] = "returned") =>
             /\ pending'[c].kind = "ok"
             /\ last'.kind = "ok"
             /\ Cardinality(RowsWithEmail(store', pending[c].email))
                   = Cardinality(RowsWithEmail(store, pending[c].email)) + 1]_vars

\* Two callers have both returned successfully from create_user with the same
\* email, and two records with that email are stored.
C3_Witness ==
    \E c, d \in Callers :
       /\ c # d
       /\ pc[c] = "returned" /\ pc[d] = "returned"
       /\ pending[c].kind = "ok" /\ pending[d].kind = "ok"
       /\ pending[c].email = pending[d].email
       /\ Cardinality(RowsWithEmail(store, pending[c].email)) >= 2

\* C4: create_user with an email no stored User has succeeds, passes exactly
\* that email and name to Repository.create, returns a record whose id no
\* other stored record has, and get_user on that id right afterwards returns
\* a record with the same email and name.
C4_CreateThenGet ==
    [][(last'.op = "create_user" /\ last'.email \notin EmailsOf(store)) =>
          /\ last'.kind = "ok"
          /\ last'.calls = <<Call("get_by_email", 0, last'.email, 0, 0, 0),
                             Call("create", 0, last'.email, last'.name, 0, 0)>>
          /\ Len(last'.value) = 1
          /\ last'.value[1].id \notin IdsOf(store)
          /\ Cardinality(RowsWithId(store', last'.value[1].id)) = 1
          /\ LET got == get_user(store', last'.value[1].id)
             IN  /\ got.kind = "ok"
                 /\ got.value[1].email = last'.email
                 /\ got.value[1].name = last'.name]_vars

\* A create succeeded while another record was already stored.
C4_Witness ==
    /\ last.op = "create_user"
    /\ last.kind = "ok"
    /\ Len(store) >= 2

\* C5: update_user_name on an existing id followed by get_user on it returns
\* a record with the new name and the id and email it had before.
C5_UpdateThenGet ==
    [][(last'.op = "update_user_name" /\ last'.user_id \in IdsOf(store)) =>
          LET before == get_user(store, last'.user_id).value[1]
              got == get_user(store', last'.user_id)
          IN  /\ last'.kind = "ok"
              /\ got.kind = "ok"
              /\ got.value[1].name = last'.name
              /\ got.value[1].id = before.id
              /\ got.value[1].email = before.email]_vars

\* An update gave a record a name other than the one it was created with,
\* with another record stored beside it.
C5_Witness ==
    /\ last.op = "update_user_name"
    /\ last.kind = "ok"
    /\ Len(store) >= 2
    /\ \E i \in DOMAIN store : store[i].id = last.user_id /\ store[i].name = last.name

\* C6: after a successful delete_user(id), get_user(id) fails with
\* UserNotFoundError, and an id for which get_user fails keeps failing over
\* every call other than a create that returns that id.
C6_DeleteThenNotFound ==
    [][/\ (last'.op = "delete_user" /\ last'.kind = "ok") =>
             NotFound(store', last'.user_id)
       /\ \A user_id \in Ids :
             (/\ NotFound(store, user_id)
              /\ ~(/\ last'.op = "create_user"
                   /\ last'.kind = "ok"
                   /\ last'.value[1].id = user_id)) =>
                NotFound(store', user_id)]_vars

\* A delete succeeded and left another record stored.
C6_Witness ==
    /\ last.op = "delete_user"
    /\ last.kind = "ok"
    /\ store # << >>

\* C7: get_user calls Repository.get_by_id exactly once with its id; it fails
\* with UserNotFoundError when no stored record has the id and otherwise
\* returns exactly the record the repository returns.
C7_GetUser ==
    last.op = "get_user" =>
       /\ last.calls = <<Call("get_by_id", last.user_id, 0, 0, 0, 0)>>
       /\ last.user_id \notin IdsOf(store) => last.kind = "UserNotFoundError"
       /\ last.user_id \in IdsOf(store) =>
             /\ last.kind = "ok"
             /\ last.value = get_by_id(store, last.user_id)
             /\ last.value[1].id = last.user_id

\* get_user failed on an id no record has while other records are stored.
C7_Witness ==
    /\ last.op = "get_user"
    /\ last.kind = "UserNotFoundError"
    /\ store # << >>

\* get_user returned the second record of the table.
C7_WitnessFound ==
    /\ last.op = "get_user"
    /\ last.kind = "ok"
    /\ Len(store) >= 2
    /\ last.value[1] = store[2]

\* C8: list_users(page, page_size) with page >= 1 and page_size >= 1 calls
\* Repository.list_all with limit = page_size and offset = (page - 1) *
\* page_size, returns at most page_size records, and on the same table the
\* result for page + 1 shares no record with it and continues the window.
C8_Pagination ==
    (last.op = "list_users" /\ last.page >= 1 /\ last.page_size >= 1) =>
       LET nxt == list_users(store, last.page + 1, last.page_size).value
           offset == (last.page - 1) * last.page_size
       IN  /\ last.kind = "ok"
           /\ last.calls = <<Call("list_all", 0, 0, 0, last.page_size, offset)>>
           /\ Len(last.value) <= last.page_size
           /\ \A i \in DOMAIN last.value, j \in DOMAIN nxt : last.value[i] # nxt[j]
           /\ last.value \o nxt = list_all(store, 2 * last.page_size, offset)

\* A page of one record was listed and the page after it holds another record.
C8_Witness ==
    /\ last.op = "list_users"
    /\ last.value # << >>
    /\ list_users(store, last.page + 1, last.page_size).value # << >>

\* C9: the endpoints answer UserNotFoundError with 404 and
\* UserAlreadyExistsError with 409, and a failure of any other kind is not
\* answered with 404 or 409 but leaves the endpoint as it was raised.
C9_OnlyServiceErrorsTranslated ==
    /\ resp.cause = "UserNotFoundError" => resp.status = 404
    /\ resp.cause = "UserAlreadyExistsError" => resp.status = 409
    /\ resp.cause \notin {"none", "UserNotFoundError", "UserAlreadyExistsError"} =>
          /\ resp.status \notin {404, 409}
          /\ resp.raised = resp.cause

\* C10: update_user_name and delete_user on an id no stored record has fail
\* with UserNotFoundError, make no call to Repository.update or
\* Repository.delete, and leave the stored records as they were.
C10_MissingIdRejected ==
    [][(/\ last'.op \in {"update_user_name", "delete_user"}
        /\ last'.user_id \notin IdsOf(store)) =>
          /\ last'.kind = "UserNotFoundError"
          /\ CallsTo(last'.calls, "update") = {}
          /\ CallsTo(last'.calls, "delete") = {}
          /\ store' = store]_vars

\* An update failed on an id no record has while other records are stored.
C10_Witness ==
    /\ last.op = "update_user_name"
    /\ last.kind = "UserNotFoundError"
    /\ store # << >>

=============================================================================
